---- MODULE Spec2Model ----
(***************************************************************************)
(* State-machine model of the DASE unified cache: the storage backends     *)
(* (backends/filesystem_backend.py, binary_backend.py, model_backend.py),  *)
(* the CacheManager (cache_manager.py) and the content-addressed mission   *)
(* runner (mission_graph.py).                                              *)
(*                                                                         *)
(* A category directory is a function from keys to the files that carry    *)
(* that key as their stem (<key>.npz, <key>.json, <key>.dat, <key>.pt,     *)
(* <key>.meta.json).  The file index.json of a directory is the .json file *)
(* of the key "index": the generic backend resolves that key to the very   *)
(* file the manager keeps its metadata index in.                           *)
(*                                                                         *)
(* Payloads are abstracted to their Python shape (kind), the names of the  *)
(* arrays they hold, and a content number.  File contents are abstracted   *)
(* the same way; SHA-256 is modelled as an injective function of the       *)
(* content, the size of a file as a function of its content.               *)
(***************************************************************************)
EXTENDS Integers, Sequences, FiniteSets, TLC

\* -------------------------------------------------------------- bounds
\* number of clock-reading manager operations (save, successful load)
MaxClock == 3
\* number of commands in a mission
MaxCmds == 2
\* number of run_mission calls of one runner
MaxRuns == 2

\* -------------------------------------------------------------- values
NoTime == 0

IndexKey == "index"
Keys == {"k1", IndexKey}
\* the key a second manager on the same root saves under
PeerKey == "k2"

\* categories registered by CacheManager._init_backends and their backends
BackendOf ==
    [c \in {"stencils", "fftw_wisdom", "surrogates", "mission_graph"} |->
        CASE c = "stencils"      -> "fs"
          [] c = "mission_graph" -> "fs"
          [] c = "fftw_wisdom"   -> "bin"
          [] c = "surrogates"    -> "model"]
Registered == DOMAIN BackendOf

\* a value held inside a payload: a number, a string, a list or a tuple
Item(k, v, tx) == [kind |-> k, val |-> v, text |-> tx]

\* a payload: its Python shape, the names of its arrays, its content, the
\* values nested in it
Payload(k, ns, v, its) == [kind |-> k, names |-> ns, val |-> v, items |-> its]
NoPayload == Payload("none", {}, 0, <<>>)
\* what json.loads returns for the metadata index document
IndexDocument == Payload("dict", {}, 0, <<>>)

\* a file: fmt is the extension, shape the serialised top-level shape
Content(f, s, ns, v, its) == [fmt |-> f, shape |-> s, names |-> ns, val |-> v, items |-> its]
NoFile == Content("none", "none", {}, 0, <<>>)
\* index.json as written by _ensure_structure / _save_metadata
IndexContent == Content("json", "index", {}, 0, <<>>)

NoFiles == [npz |-> NoFile, json |-> NoFile, dat |-> NoFile, pt |-> NoFile, meta |-> NoFile]

\* ------------------------------------------------- serialisation formats
\* np.savez_compressed(path, data=arr) / np.savez_compressed(path, **data)
NpzDump(data) ==
    IF data.kind = "ndarray"
    THEN Content("npz", "arrays", {"data"}, data.val, <<>>)
    ELSE Content("npz", "arrays", data.names, data.val, <<>>)

\* bytes that are no file of the format: the decoder raises on them
Garbage(c) == [c EXCEPT !.shape = "garbage"]
Undecodable == Payload("undecodable", {}, 0, <<>>)

\* np.load(path), then the 'data' in loaded test of FilesystemBackend.load
NpzLoad(c) ==
    IF c.shape = "garbage" THEN Undecodable
    ELSE IF "data" \in c.names
    THEN Payload("ndarray", {}, c.val, <<>>)
    ELSE Payload("arrdict", c.names, c.val, <<>>)

\* the JSON text of a nested value: a tuple is written as a list is
JsonEncode(it) == IF it.kind = "tuple" THEN Item("list", it.val, it.text) ELSE it

\* json.dumps: a dict becomes an object, a list or a tuple an array
JsonDumps(data) ==
    Content("json", IF data.kind = "dict" THEN "object" ELSE "array", {}, data.val,
            [i \in 1..Len(data.items) |-> JsonEncode(data.items[i])])

\* json.loads: an object becomes a dict, an array a list
JsonLoads(c) ==
    CASE c.shape = "object"  -> Payload("dict", {}, c.val, c.items)
      [] c.shape = "array"   -> Payload("list", {}, c.val, c.items)
      [] c.shape = "garbage" -> Undecodable
      [] OTHER               -> IndexDocument

\* path.write_bytes / path.read_bytes
BytesWrite(data) == Content("dat", "bytes", {}, data.val, <<>>)
BytesRead(c) == Payload("bytes", {}, c.val, <<>>)

\* torch.save / torch.load (pickle keeps the Python shape)
TorchSave(data) == Content("pt", data.kind, data.names, data.val, data.items)
TorchLoad(c) ==
    IF c.shape = "garbage" THEN Undecodable ELSE Payload(c.shape, c.names, c.val, c.items)

\* path.stat().st_size
FileSize(c) == 1 + c.val + Cardinality(c.names) + Len(c.items)

\* CacheManager._compute_checksum: sha256 over the file's bytes
ComputeChecksum(c) == c

\* ------------------------------------------------------ backend dispatch
IsDict(data) == data.kind \in {"dict", "arrdict"}
IsJsonSerializable(data) == data.kind \in {"dict", "list", "tuple"}

\* the extension FilesystemBackend.save picks ("none": ValueError)
FsExt(data) ==
    CASE data.kind = "ndarray"    -> "npz"
      [] data.kind = "arrdict"    -> "npz"
      [] IsJsonSerializable(data) -> "json"
      [] OTHER                    -> "none"

\* the binary backend without its isinstance check
AcceptsAnyBytes(b, data) ==
    CASE b = "fs"    -> FsExt(data) # "none"
      [] b = "bin"   -> TRUE
      [] b = "model" -> IsDict(data)

\* does backend.save accept the payload (otherwise it raises ValueError)
Accepts(b, data) ==
    CASE b = "fs"    -> FsExt(data) # "none"
      [] b = "bin"   -> data.kind = "bytes"
      [] b = "model" -> IsDict(data)

\* the path backend.save returns, as the extension of <key>
PathExt(b, data) ==
    CASE b = "fs"    -> FsExt(data)
      [] b = "bin"   -> "dat"
      [] b = "model" -> "pt"

Serialize(b, data) ==
    CASE b = "fs"    -> IF FsExt(data) = "npz" THEN NpzDump(data) ELSE JsonDumps(data)
      [] b = "bin"   -> BytesWrite(data)
      [] b = "model" -> TorchSave(data)

\* backend.save(key, data): the directory afterwards
BackendSave(b, dir, key, data) ==
    [dir EXCEPT ![key] = [@ EXCEPT ![PathExt(b, data)] = Serialize(b, data)]]

\* BinaryBackend.save / ModelBackend.save(key, data, metadata): the directory
\* afterwards; <key>.meta.json is written unless metadata is None
BackendSaveMeta(b, dir, key, data, meta) ==
    [dir EXCEPT ![key] = [@ EXCEPT ![PathExt(b, data)] = Serialize(b, data),
                                   !.meta = IF meta = NoPayload THEN @ ELSE JsonDumps(meta)]]

\* BinaryBackend.load_metadata / ModelBackend.load_metadata(key); NoPayload is None
BackendLoadMetadata(dir, key) ==
    IF dir[key].meta # NoFile THEN JsonLoads(dir[key].meta) ELSE NoPayload

\* backend.exists(key)
BackendExists(b, dir, key) ==
    CASE b = "fs"    -> dir[key].npz # NoFile \/ dir[key].json # NoFile
      [] b = "bin"   -> dir[key].dat # NoFile
      [] b = "model" -> dir[key].pt # NoFile

\* backend.load(key), for a key that exists
BackendLoad(b, dir, key) ==
    CASE b = "fs"    -> IF dir[key].npz # NoFile
                        THEN NpzLoad(dir[key].npz)
                        ELSE JsonLoads(dir[key].json)
      [] b = "bin"   -> BytesRead(dir[key].dat)
      [] b = "model" -> TorchLoad(dir[key].pt)

\* backend.delete(key): the directory afterwards (the return value is
\* BackendExists before the call for every backend)
BackendDelete(b, dir, key) ==
    CASE b = "fs"    -> [dir EXCEPT ![key] = [@ EXCEPT !.npz = NoFile, !.json = NoFile]]
      [] b = "bin"   -> [dir EXCEPT ![key] = [@ EXCEPT !.dat = NoFile, !.meta = NoFile]]
      [] b = "model" -> [dir EXCEPT ![key] = [@ EXCEPT !.pt = NoFile, !.meta = NoFile]]

\* the file a backend reads a key from: the generic backend tries <key>.npz,
\* then <key>.json
BackendFile(b, dir, key) ==
    CASE b = "fs"    -> IF dir[key].npz # NoFile THEN dir[key].npz ELSE dir[key].json
      [] b = "bin"   -> dir[key].dat
      [] b = "model" -> dir[key].pt

\* backend.get_size(key), for a key that exists: the size of that file, plus the
\* size of <key>.meta.json for the binary and the model backend
BackendGetSize(b, dir, key) ==
    CASE b = "fs"    -> FileSize(BackendFile(b, dir, key))
      [] OTHER       -> FileSize(BackendFile(b, dir, key))
                        + (IF dir[key].meta # NoFile THEN FileSize(dir[key].meta) ELSE 0)

\* backend.list_keys(): the generic backend skips the file index.json
ListKeys(b, dir) ==
    CASE b = "fs"    -> {k \in DOMAIN dir : dir[k].npz # NoFile
                                            \/ (dir[k].json # NoFile /\ k # IndexKey)}
      [] b = "bin"   -> {k \in DOMAIN dir : dir[k].dat # NoFile}
      [] b = "model" -> {k \in DOMAIN dir : dir[k].pt # NoFile}

\* ------------------------------------------------------- mission nodes
\* a command: its type and its params, a dict in insertion order
Command(t, ps) == [type |-> t, params |-> ps]

\* the parameter names in use, in lexicographic order (sort_keys=True)
ParamNames == <<"dt", "num_nodes", "timesteps">>
Rank(name) == CHOOSE i \in 1..Len(ParamNames) : ParamNames[i] = name

RECURSIVE SortKeys(_)
\* the pairs of a dict ordered by key, as json.dumps(..., sort_keys=True) writes them
SortKeys(ps) ==
    IF ps = <<>> THEN <<>>
    ELSE LET i == CHOOSE j \in 1..Len(ps) :
                      \A m \in 1..Len(ps) : Rank(ps[j][1]) <= Rank(ps[m][1])
         IN <<ps[i]>> \o SortKeys(SubSeq(ps, 1, i - 1) \o SubSeq(ps, i + 1, Len(ps)))

\* json.dumps of the params: each value as JSON writes it
JsonParams(ps) == [i \in 1..Len(ps) |-> <<ps[i][1], JsonEncode(ps[i][2])>>]

\* hashlib.sha256(text).hexdigest()[:16], taken to be free of collisions
Sha256Hex16(text) == ToString(text)

\* the hash taken over the params in insertion order
ComputeHashUnsorted(node_type, params) ==
    node_type \o "_" \o Sha256Hex16(<<node_type, JsonParams(params)>>)

\* MissionNode._compute_hash
ComputeHash(node_type, params) ==
    node_type \o "_" \o Sha256Hex16(<<node_type, SortKeys(JsonParams(params))>>)

\* MissionNode.__init__ (to_dict)
MissionNode(node_type, params, deps) ==
    [node_id |-> ComputeHash(node_type, params), node_type |-> node_type,
     params |-> params, dependencies |-> deps]

NoNodes == [k \in {} |-> MissionNode("", <<>>, <<>>)]

RECURSIVE BuildFrom(_, _, _)
\* the loop of MissionDAG._build_dag; prev is the dependencies list of the next node
BuildFrom(dag, cmds, prev) ==
    IF cmds = <<>> THEN dag
    ELSE LET node == MissionNode(Head(cmds).type, Head(cmds).params, prev)
         IN BuildFrom([nodes |-> [k \in DOMAIN dag.nodes \cup {node.node_id} |->
                                     IF k = node.node_id THEN node ELSE dag.nodes[k]],
                       execution_order |-> Append(dag.execution_order, node.node_id)],
                      Tail(cmds), <<node.node_id>>)

\* MissionDAG.__init__
MissionDAG(cmds) == BuildFrom([nodes |-> NoNodes, execution_order |-> <<>>], cmds, <<>>)

\* params.get(name, default)
Get(ps, name, default) ==
    IF \E i \in 1..Len(ps) : ps[i][1] = name
    THEN ps[CHOOSE i \in 1..Len(ps) : ps[i][1] = name][2]
    ELSE default

\* a result dict of the executor
ResultDict(its) == Payload("dict", {}, 0, its)
\* the executor raised
Raised == Payload("raised", {}, 0, <<>>)

\* an executor that reports a failed evolve in its result instead of raising
ExecuteNodeLenient(node, t) ==
    CASE node.node_type = "create_engine" ->
            ResultDict(<<Item("str", 0, "engine_001"),
                         Get(node.params, "num_nodes", Item("int", 4096, "")),
                         Item("str", 0, "created")>>)
      [] node.node_type = "evolve" ->
            LET timesteps == Get(node.params, "timesteps", Item("int", 100, ""))
            IN IF timesteps.kind \in {"int", "float"}
               THEN ResultDict(<<timesteps, Item("float", timesteps.val, "* 0.01"),
                                 Item("int", 100, ""), Item("str", 0, "evolved")>>)
               ELSE ResultDict(<<timesteps, Item("str", 0, "failed")>>)
      [] node.node_type = "snapshot" ->
            ResultDict(<<Item("str", 0, "snapshot_001"), Item("str", t, "timestamp"),
                         Item("str", 0, "captured")>>)
      [] node.node_type = "analyze" ->
            ResultDict(<<Item("dict", 0, "metrics"), Item("str", 0, "analyzed")>>)
      [] OTHER ->
            ResultDict(<<Item("str", 0, "unknown_command"), Item("str", 0, node.node_type)>>)

\* CachedMissionRunner._execute_node at time t
ExecuteNode(node, t) ==
    CASE node.node_type = "create_engine" ->
            ResultDict(<<Item("str", 0, "engine_001"),
                         Get(node.params, "num_nodes", Item("int", 4096, "")),
                         Item("str", 0, "created")>>)
      [] node.node_type = "evolve" ->
            LET timesteps == Get(node.params, "timesteps", Item("int", 100, ""))
            IN IF timesteps.kind \in {"int", "float"}
               THEN ResultDict(<<timesteps, Item("float", timesteps.val, "* 0.01"),
                                 Item("int", 100, ""), Item("str", 0, "evolved")>>)
               ELSE Raised
      [] node.node_type = "snapshot" ->
            ResultDict(<<Item("str", 0, "snapshot_001"), Item("str", t, "timestamp"),
                         Item("str", 0, "captured")>>)
      [] node.node_type = "analyze" ->
            ResultDict(<<Item("dict", 0, "metrics"), Item("str", 0, "analyzed")>>)
      [] OTHER ->
            ResultDict(<<Item("str", 0, "unknown_command"), Item("str", 0, node.node_type)>>)

\* the commands missions are made of
CmdCreateGrid == Command("create_engine", << <<"num_nodes", Item("tuple", 64, "")>> >>)
CmdEvolve == Command("evolve", << <<"timesteps", Item("int", 100, "")>>,
                                  <<"dt", Item("int", 1, "")>> >>)
CmdEvolveReordered == Command("evolve", << <<"dt", Item("int", 1, "")>>,
                                           <<"timesteps", Item("int", 100, "")>> >>)
CmdSnapshot == Command("snapshot", <<>>)
\* timesteps given as text: timesteps * 0.01 raises TypeError
CmdEvolveText == Command("evolve", << <<"timesteps", Item("str", 0, "100")>> >>)
Commands == {CmdCreateGrid, CmdEvolve, CmdEvolveReordered, CmdSnapshot, CmdEvolveText}

\* a type with a path separator: the node id "io/read_<hash>" names a file in the
\* directory mission_graph/io, which nothing creates
CmdIoRead == Command("io/read", <<>>)
\* the keys that name a file in a directory that does not exist
NestedIds == {ComputeHash(CmdIoRead.type, CmdIoRead.params)}

NodeIds == {ComputeHash(c.type, c.params) : c \in Commands \cup {CmdIoRead}}

\* ---------------------------------------------------------- cache manager
VARIABLES
    files,             \* files[c][k]: the files of key k in directory <root>/c
    diskIndex,         \* diskIndex[c]: the document last written to c/index.json
    metadata,          \* CacheManager.metadata
    enable_stats,      \* CacheManager.enable_stats
    enable_checksums,  \* CacheManager.enable_checksums
    now,               \* the time of the latest call that read or wrote an artifact
    last,              \* the last call: method, category, key and outcome (returned or raised)
    loads,             \* per key: successful loads since its last save (n), the time
                       \* of the latest of them (at), successful loads so far (ever)
    client,            \* the category the caller of the manager works in
    peer               \* a second CacheManager on the same root: whether it has been
                       \* constructed (open), and its own CacheManager.metadata

mgrVars == <<files, diskIndex, metadata, enable_stats, enable_checksums, now, last, loads, client, peer>>

\* the state of a CachedMissionRunner and of its caller
VARIABLES
    enable_cache,  \* CachedMissionRunner.enable_cache
    stats,         \* CachedMissionRunner.stats
    pc,            \* "idle", or "executing" inside run_mission
    mission,       \* the command list the caller works with
    cur,           \* the locals of the run_mission call in progress
    runs,          \* what each completed run_mission call returned
    built,         \* every MissionNode constructed so far, with its position and time
    cleared        \* clear_cache was called since the last run_mission returned

runVars == <<enable_cache, stats, pc, mission, cur, runs, built, cleared>>
vars == <<mgrVars, runVars>>


\* a CacheEntry (to_dict)
CacheEntry(key, created, size, count, accessed, sum) ==
    [key |-> key, created_at |-> created, size_bytes |-> size,
     access_count |-> count, last_accessed |-> accessed, checksum |-> sum]

NoEntries == [k \in {} |-> CacheEntry("", NoTime, 0, 0, NoTime, NoFile)]

\* n bytes in megabytes, n / (1024 * 1024), as a fraction
Mb(n) == <<n, 1024 * 1024>>

RECURSIVE SumSizes(_)
\* sum(e["size_bytes"] for e in entries.values())
SumSizes(entries) ==
    IF DOMAIN entries = {} THEN 0
    ELSE LET k == CHOOSE x \in DOMAIN entries : TRUE
         IN entries[k].size_bytes
            + SumSizes([x \in DOMAIN entries \ {k} |-> entries[x]])

\* the index document _ensure_structure writes into a new directory
EmptyIndex == [entries |-> NoEntries, total_entries |-> 0, total_size_mb |-> Mb(0)]

\* the state one CacheManager works on; now is what datetime.utcnow() returns
\* during the call
CacheStateAt(t) == [files |-> files, diskIndex |-> diskIndex, metadata |-> metadata, now |-> t]
CacheState == CacheStateAt(now + 1)

\* CacheManager._save_metadata: index.json is rewritten with the in-memory index
save_metadata(cs, cat) ==
    [cs EXCEPT !.diskIndex[cat] = cs.metadata[cat],
               !.files[cat][IndexKey].json = IndexContent]

\* CacheManager._load_metadata: every category's index.json is read into memory,
\* {"entries": {}} where the file is missing; with statistics enabled the file
\* holds the document _save_metadata wrote last
load_metadata(cs) ==
    [c \in Registered |->
        IF cs.files[c][IndexKey].json = NoFile
        THEN [entries |-> NoEntries]
        ELSE cs.diskIndex[c]]

\* CacheManager._ensure_structure: a category directory without index.json gets
\* one with no entries
ensure_structure(cs) ==
    [cs EXCEPT
       !.files = [c \in Registered |->
                     IF cs.files[c][IndexKey].json = NoFile
                     THEN [cs.files[c] EXCEPT ![IndexKey].json = IndexContent]
                     ELSE cs.files[c]],
       !.diskIndex = [c \in Registered |->
                         IF cs.files[c][IndexKey].json = NoFile
                         THEN EmptyIndex ELSE cs.diskIndex[c]]]

\* CacheManager.__init__ on a root: the state the new manager works on
Opened(cs) ==
    LET e == ensure_structure(cs) IN [e EXCEPT !.metadata = load_metadata(e)]

\* the entry put into the map, the totals counted up instead of recomputed
PutEntryCounting(idx, key, entry) ==
    [entries |-> [k \in DOMAIN idx.entries \cup {key} |->
                     IF k = key THEN entry ELSE idx.entries[k]],
     total_entries |-> idx.total_entries + 1,
     total_size_mb |-> Mb(idx.total_size_mb[1] + entry.size_bytes)]

\* the entry put into the map, every other entry's access statistics rewritten
\* from the dataclass defaults
PutEntryFresh(idx, key, entry) ==
    LET es == [k \in DOMAIN idx.entries \cup {key} |->
                   IF k = key THEN entry
                   ELSE [idx.entries[k] EXCEPT !.access_count = 0]]
    IN [entries |-> es, total_entries |-> Cardinality(DOMAIN es),
        total_size_mb |-> Mb(SumSizes(es))]

\* the key's entry put into the entries map, and the totals recomputed from the map
PutEntry(idx, key, entry) ==
    LET es == [k \in DOMAIN idx.entries \cup {key} |->
                   IF k = key THEN entry ELSE idx.entries[k]]
    IN [entries |-> es, total_entries |-> Cardinality(DOMAIN es),
        total_size_mb |-> Mb(SumSizes(es))]

\* the key's entry removed from the entries map, and the totals recomputed
DelEntry(idx, key) ==
    LET es == [k \in DOMAIN idx.entries \ {key} |-> idx.entries[k]]
    IN [entries |-> es, total_entries |-> Cardinality(DOMAIN es),
        total_size_mb |-> Mb(SumSizes(es))]

\* the result of a call: the state afterwards, the outcome, the value returned
Result(cs, ret, val) == [cs |-> cs, ret |-> ret, val |-> val]

\* save with the index read back from index.json before the entry is put into it
saveMerging(cs, cat, key, data) ==
    IF cat \notin Registered
    THEN Result(cs, "KeyError: Unknown cache category", NoPayload)
    ELSE LET b == BackendOf[cat] IN
         IF ~Accepts(b, data)
         THEN Result(cs, "ValueError", NoPayload)
         ELSE IF key \in NestedIds
         THEN Result(cs, "FileNotFoundError", NoPayload)
         ELSE LET dir == BackendSave(b, cs.files[cat], key, data)
                  written == dir[key][PathExt(b, data)]
                  t == cs.now
                  entry == CacheEntry(key, t, FileSize(written), 0, NoTime,
                                      IF enable_checksums
                                      THEN ComputeChecksum(written) ELSE NoFile)
                  saved == [cs EXCEPT !.files[cat] = dir,
                                      !.metadata[cat] = load_metadata(cs)[cat]]
              IN IF enable_stats
                 THEN Result(save_metadata(
                                [saved EXCEPT !.metadata[cat] = PutEntry(@, key, entry)], cat),
                             "ok", NoPayload)
                 ELSE Result(saved, "ok", NoPayload)

\* CacheManager.save(category, key, data); the backend raises ValueError for a
\* payload it does not take and FileNotFoundError when it opens a file in a
\* directory that does not exist
save(cs, cat, key, data) ==
    IF cat \notin Registered
    THEN Result(cs, "KeyError: Unknown cache category", NoPayload)
    ELSE LET b == BackendOf[cat] IN
         IF ~Accepts(b, data)
         THEN Result(cs, "ValueError", NoPayload)
         ELSE IF key \in NestedIds
         THEN Result(cs, "FileNotFoundError", NoPayload)
         ELSE LET dir == BackendSave(b, cs.files[cat], key, data)
                  written == dir[key][PathExt(b, data)]
                  t == cs.now
                  entry == CacheEntry(key, t, FileSize(written), 0, NoTime,
                                      IF enable_checksums
                                      THEN ComputeChecksum(written) ELSE NoFile)
                  saved == [cs EXCEPT !.files[cat] = dir]
              IN IF enable_stats
                 THEN Result(save_metadata(
                                [saved EXCEPT !.metadata[cat] = PutEntry(@, key, entry)], cat),
                             "ok", NoPayload)
                 ELSE Result(saved, "ok", NoPayload)

\* a key that leaves the category's directory: "../<other>/<name>"
Across(other, name) == "../" \o other \o "/" \o name

\* CacheManager.save(category, "../<other>/<name>", data): the backend joins the
\* key to its root unchecked, so the file it writes is <name>.<ext> in the
\* directory of the other category; the entry is put under the key as given
saveAcross(cs, cat, other, name, data) ==
    IF cat \notin Registered
    THEN Result(cs, "KeyError: Unknown cache category", NoPayload)
    ELSE LET b == BackendOf[cat] IN
         IF ~Accepts(b, data)
         THEN Result(cs, "ValueError", NoPayload)
         ELSE LET key == Across(other, name)
                  dir == BackendSave(b, cs.files[other], name, data)
                  written == dir[name][PathExt(b, data)]
                  t == cs.now
                  entry == CacheEntry(key, t, FileSize(written), 0, NoTime,
                                      IF enable_checksums
                                      THEN ComputeChecksum(written) ELSE NoFile)
                  saved == [cs EXCEPT !.files[other] = dir]
              IN IF enable_stats
                 THEN Result(save_metadata(
                                [saved EXCEPT !.metadata[cat] = PutEntry(@, key, entry)], cat),
                             "ok", NoPayload)
                 ELSE Result(saved, "ok", NoPayload)

\* the access counted, the time of the access not recorded
AccessedUndated(entry, t) == [entry EXCEPT !.access_count = @ + 1]

\* the access statistics of an entry loaded at time t
Accessed(entry, t) == [entry EXCEPT !.access_count = @ + 1, !.last_accessed = t]

\* CacheManager.load once the backend reports the key: the data is read, then
\* the access is recorded; a decoder's exception leaves the method before that
loadFound(cs, cat, key) ==
    LET data == BackendLoad(BackendOf[cat], cs.files[cat], key)
        t == cs.now
    IN IF data = Undecodable
       THEN Result(cs, "DecodeError", NoPayload)
       ELSE IF enable_stats /\ key \in DOMAIN cs.metadata[cat].entries
       THEN Result(save_metadata(
                      [cs EXCEPT !.metadata[cat].entries[key] = Accessed(@, t)], cat),
                   "ok", data)
       ELSE Result(cs, "ok", data)

\* load without the category check: an unknown category has no backend and
\* so no key
loadUnchecked(cs, cat, key) ==
    IF cat \notin Registered \/ ~BackendExists(BackendOf[cat], cs.files[cat], key)
    THEN Result(cs, "KeyError: Cache key not found", NoPayload)
    ELSE loadFound(cs, cat, key)

\* load that records an access for a key it does not find
loadRecording(cs, cat, key) ==
    IF cat \notin Registered
    THEN Result(cs, "KeyError: Unknown cache category", NoPayload)
    ELSE IF ~BackendExists(BackendOf[cat], cs.files[cat], key)
    THEN Result(IF enable_stats
                THEN save_metadata(
                        [cs EXCEPT !.metadata[cat] =
                            PutEntry(@, key, CacheEntry(key, NoTime, 0, 1, cs.now, NoFile))],
                        cat)
                ELSE cs,
                "KeyError: Cache key not found", NoPayload)
    ELSE loadFound(cs, cat, key)

\* CacheManager.load(category, key)
load(cs, cat, key) ==
    IF cat \notin Registered
    THEN Result(cs, "KeyError: Unknown cache category", NoPayload)
    ELSE IF ~BackendExists(BackendOf[cat], cs.files[cat], key)
    THEN Result(cs, "KeyError: Cache key not found", NoPayload)
    ELSE loadFound(cs, cat, key)

\* CacheManager.exists(category, key)
exists(cs, cat, key) ==
    IF cat \notin Registered THEN FALSE
    ELSE BackendExists(BackendOf[cat], cs.files[cat], key)

\* CacheManager.delete(category, key)
delete(cs, cat, key) ==
    IF cat \notin Registered
    THEN Result(cs, "False", NoPayload)
    ELSE LET b == BackendOf[cat]
             success == BackendExists(b, cs.files[cat], key)
             gone == [cs EXCEPT !.files[cat] = BackendDelete(b, @, key)]
         IN IF success /\ enable_stats /\ key \in DOMAIN cs.metadata[cat].entries
            THEN Result(save_metadata(
                           [gone EXCEPT !.metadata[cat] = DelEntry(@, key)], cat),
                        "True", NoPayload)
            ELSE Result(gone, IF success THEN "True" ELSE "False", NoPayload)

RECURSIVE DeleteAll(_, _, _)
\* the loop of clear_category: backend.delete(key) for every listed key
DeleteAll(b, dir, keys) ==
    IF keys = {} THEN dir
    ELSE LET k == CHOOSE x \in keys : TRUE
         IN DeleteAll(b, BackendDelete(b, dir, k), keys \ {k})

\* CacheManager.clear_category(category); val.val is the count returned
clear_category(cs, cat) ==
    IF cat \notin Registered
    THEN Result(cs, "ok", Payload("int", {}, 0, <<>>))
    ELSE LET b == BackendOf[cat]
             keys == ListKeys(b, cs.files[cat])
             gone == [cs EXCEPT !.files[cat] = DeleteAll(b, @, keys)]
             count == Payload("int", {}, Cardinality(keys), <<>>)
         IN IF enable_stats
            THEN Result(save_metadata([gone EXCEPT !.metadata[cat] = EmptyIndex], cat),
                        "ok", count)
            ELSE Result(gone, "ok", count)

RECURSIVE ClearEach(_, _)
\* the loop of clear_all over self.backends
ClearEach(cs, cats) ==
    IF cats = {} THEN cs
    ELSE LET c == CHOOSE x \in cats : TRUE
         IN ClearEach(clear_category(cs, c).cs, cats \ {c})

\* CacheManager.clear_all(); val.val is the sum of the counts returned
clear_all(cs) ==
    LET counted == {<<c, Cardinality(ListKeys(BackendOf[c], cs.files[c]))>> : c \in Registered}
    IN Result(ClearEach(cs, Registered), "ok",
              Payload("counts", {p[1] : p \in {q \in counted : q[2] > 0}}, 0, <<>>))

\* ------------------------------------------------------------ the inputs
Arr1 == Payload("ndarray", {}, 1, <<>>)
ArrW == Payload("arrdict", {"w"}, 1, <<>>)
Doc1 == Payload("dict", {}, 1, <<>>)
Tup1 == Payload("tuple", {}, 1, <<>>)
Bytes1 == Payload("bytes", {}, 1, <<>>)
Obj1 == Payload("object", {}, 1, <<>>)
Payloads == {Arr1, ArrW, Doc1, Tup1, Bytes1, Obj1}
\* the payloads saved under the key that names the index file
IndexPayloads == {Arr1, Doc1}
PayloadsFor(k) == IF k = IndexKey THEN IndexPayloads ELSE Payloads

\* the metadata dicts saved next to a blob or a checkpoint: one holding a list,
\* one holding a tuple; NoPayload stands for metadata=None
MetaList == Payload("dict", {}, 1, << Item("list", 512, "") >>)
MetaTuple == Payload("dict", {}, 1, << Item("tuple", 512, "") >>)
Metas == {MetaList, MetaTuple}

\* the categories a caller works in, one per backend
ClientCats == {"stencils", "fftw_wisdom", "surrogates"}
\* a category name that is not registered
InvalidCategory == "invalid_category"

\* the keys a category is used with
KeysOf(c) == IF c = "mission_graph" THEN NodeIds \cup {IndexKey} ELSE Keys \cup {PeerKey}

\* no second manager has been constructed
NoPeer == [open |-> FALSE, metadata |-> [c \in Registered |-> EmptyIndex]]

\* -------------------------------------------------------------- the state
\* CacheManager.__init__ on an empty root: _ensure_structure creates every
\* directory with its index.json, _load_metadata reads them back
MgrInit ==
    /\ files = [c \in Registered |->
                   [k \in KeysOf(c) |->
                       IF k = IndexKey THEN [NoFiles EXCEPT !.json = IndexContent]
                       ELSE NoFiles]]
    /\ diskIndex = [c \in Registered |-> EmptyIndex]
    /\ metadata = [c \in Registered |-> EmptyIndex]
    /\ enable_stats \in BOOLEAN
    /\ enable_checksums \in (IF enable_stats THEN BOOLEAN ELSE {TRUE})
    /\ now = NoTime
    /\ last = [op |-> "init", cat |-> "", key |-> "", ret |-> "ok"]
    /\ loads = [c \in Registered |->
                   [k \in KeysOf(c) |-> [n |-> 0, at |-> NoTime, ever |-> 0]]]
    /\ peer = NoPeer

\* the categories the manager is called with
CallCats == {client, InvalidCategory}

Called(op, cat, key, r) == [op |-> op, cat |-> cat, key |-> key, ret |-> r.ret]

\* the manager's state becomes that of a call's result
Becomes(r) ==
    /\ files' = r.cs.files
    /\ diskIndex' = r.cs.diskIndex
    /\ metadata' = r.cs.metadata
    /\ UNCHANGED <<enable_stats, enable_checksums, client, peer>>

Save(cat, key, data) ==
    /\ now < MaxClock
    /\ LET r == save(CacheState, cat, key, data) IN
       /\ Becomes(r)
       /\ last' = Called("save", cat, key, r)
       /\ now' = IF r.ret = "ok" THEN r.cs.now ELSE now
       /\ loads' = IF r.ret = "ok"
                   THEN [loads EXCEPT ![cat][key] = [n |-> 0, at |-> NoTime, ever |-> @.ever]]
                   ELSE loads
    /\ UNCHANGED runVars

Load(cat, key) ==
    /\ now < MaxClock
    /\ LET r == load(CacheState, cat, key) IN
       /\ Becomes(r)
       /\ last' = Called("load", cat, key, r)
       /\ now' = IF r.ret = "ok" THEN r.cs.now ELSE now
       /\ loads' = IF r.ret = "ok"
                   THEN [loads EXCEPT ![cat][key] =
                            [n |-> @.n + 1, at |-> r.cs.now, ever |-> @.ever + 1]]
                   ELSE loads
    /\ UNCHANGED runVars

Exists(cat, key) ==
    /\ last' = [op |-> "exists", cat |-> cat, key |-> key,
                ret |-> IF exists(CacheState, cat, key) THEN "True" ELSE "False"]
    /\ UNCHANGED <<files, diskIndex, metadata, enable_stats, enable_checksums, now, loads,
                   client, peer, runVars>>

Delete(cat, key) ==
    LET r == delete(CacheState, cat, key) IN
    /\ Becomes(r)
    /\ last' = Called("delete", cat, key, r)
    /\ UNCHANGED <<loads, now, runVars>>

ClearCategory(cat) ==
    LET r == clear_category(CacheState, cat) IN
    /\ Becomes(r)
    /\ last' = Called("clear_category", cat, "", r)
    /\ UNCHANGED <<loads, now, runVars>>

ClearAll ==
    LET r == clear_all(CacheState) IN
    /\ Becomes(r)
    /\ last' = Called("clear_all", "", "", r)
    /\ UNCHANGED <<loads, now, runVars>>

DoSave == \E c \in CallCats, k \in Keys : \E d \in PayloadsFor(k) : Save(c, k, d)
DoLoad == \E c \in CallCats, k \in Keys : Load(c, k)
DoExists == \E c \in CallCats, k \in Keys : Exists(c, k)
DoDelete == \E c \in CallCats, k \in Keys : Delete(c, k)
DoClearCategory == \E c \in CallCats : ClearCategory(c)

\* a save under a key that names a file of another category's directory
SaveAcross(cat, other, name, data) ==
    /\ now < MaxClock
    /\ cat # other
    /\ LET r == saveAcross(CacheState, cat, other, name, data) IN
       /\ Becomes(r)
       /\ last' = Called("save", cat, Across(other, name), r)
       /\ now' = IF r.ret = "ok" THEN r.cs.now ELSE now
    /\ UNCHANGED <<loads, runVars>>

\* the two categories of the generic backend, and the key each is called with
SharedCats == {"stencils", "mission_graph"}
SharedKeys(c) ==
    IF c = "mission_graph"
    THEN {ComputeHash(CmdSnapshot.type, CmdSnapshot.params)}
    ELSE {"k1"}
DoSaveShared == \E c \in SharedCats : \E k \in SharedKeys(c), d \in {Arr1, Doc1} : Save(c, k, d)
DoLoadShared == \E c \in SharedCats : \E k \in SharedKeys(c) : Load(c, k)
DoDeleteShared == \E c \in SharedCats : \E k \in SharedKeys(c) : Delete(c, k)
DoClearShared == \E c \in SharedCats : ClearCategory(c)
DoSaveAcross ==
    \E c \in SharedCats, o \in SharedCats :
        \E k \in SharedKeys(o), d \in {Arr1, Doc1} : SaveAcross(c, o, k, d)

\* ------------------------------------------- tampering and the validate pass
\* the file extensions a key's files can have in a category directory
Exts == {"npz", "json", "dat", "pt"}

\* a file's bytes modified in place, the format kept intact
Modified(c) == [c EXCEPT !.val = @ + 2]

\* somebody outside the manager rewrites the file <key>.<ext> of a category;
\* index.json itself is left alone
Tamper(cat, key, ext) ==
    /\ files[cat][key][ext] # NoFile
    /\ files[cat][key][ext].val < 2
    /\ ~(key = IndexKey /\ ext = "json")
    /\ files' = [files EXCEPT ![cat][key][ext] = Modified(@)]
    /\ last' = [op |-> "tamper", cat |-> cat, key |-> key, ret |-> ext]
    /\ UNCHANGED <<diskIndex, metadata, enable_stats, enable_checksums, now, loads,
                   client, peer, runVars>>

DoTamper == \E k \in Keys, e \in Exts : Tamper(client, k, e)

\* the comparison the validate pass leaves out: only a missing file is reported
VerdictPresent(file, entry) ==
    IF file = NoFile THEN "file not found" ELSE "ok"

\* cmd_validate on one entry with a stored checksum, file being the path it picked
Verdict(file, entry) ==
    IF file = NoFile THEN "file not found"
    ELSE IF ComputeChecksum(file) # entry.checksum THEN "checksum mismatch"
    ELSE "ok"

\* the path cmd_validate picks for a key of a category
ValidatePath(dir, cat, key) ==
    CASE cat = "surrogates"  -> dir[key].pt
      [] cat = "fftw_wisdom" -> dir[key].dat
      [] OTHER -> IF dir[key].npz # NoFile THEN dir[key].npz ELSE dir[key].json

\* CacheCLI.cmd_validate: a new CacheManager reads the index files of the root;
\* the errors found and the exit code
validate(cs) ==
    LET sums(c) == {k \in DOMAIN cs.diskIndex[c].entries :
                       cs.diskIndex[c].entries[k].checksum # NoFile}
        found == UNION {{<<c, k, Verdict(ValidatePath(cs.files[c], c, k),
                                         cs.diskIndex[c].entries[k])>> : k \in sums(c)}
                           : c \in Registered}
        errors == {e \in found : e[3] # "ok"}
    IN [errors |-> errors, code |-> IF errors # {} THEN 1 ELSE 0]

\* ------------------------------------------------------------------ the CLI
\* a command's outcome: the root afterwards and the exit code
Exit(cs, code) == [cs |-> cs, code |-> code]
\* an optional argument that was not given
Omitted == ""
\* what input() gives at the [y/N] prompt: an answer, or EOFError ("eof"), which
\* main() catches and turns into exit code 1
Answers == {"y", "n", "eof"}

\* CacheCLI.cmd_ls(category)
cmd_ls(cs, cat) ==
    IF cat # Omitted /\ cat \notin Registered THEN Exit(cs, 1) ELSE Exit(cs, 0)

\* CacheCLI.cmd_stats(category)
cmd_stats(cs, cat) ==
    IF cat # Omitted /\ cat \notin Registered THEN Exit(cs, 1) ELSE Exit(cs, 0)

\* CacheCLI.cmd_info(category, key): the data preview loads the entry, and
\* whatever load raises is caught
cmd_info(cs, cat, key) ==
    IF cat \notin Registered THEN Exit(cs, 1)
    ELSE IF ~exists(cs, cat, key) THEN Exit(cs, 1)
    ELSE IF key \notin DOMAIN cs.metadata[cat].entries THEN Exit(cs, 1)
    ELSE Exit(load(cs, cat, key).cs, 0)

\* cmd_clear with an unknown key counted as an error
cmd_clearStrict(cs, cat, key, answer) ==
    IF cat \notin Registered THEN Exit(cs, 1)
    ELSE IF key # Omitted
    THEN IF ~exists(cs, cat, key) THEN Exit(cs, 1)
         ELSE IF answer = "eof" THEN Exit(cs, 1)
         ELSE IF answer # "y" THEN Exit(cs, 0)
         ELSE LET d == delete(cs, cat, key)
              IN Exit(d.cs, IF d.ret = "True" THEN 0 ELSE 1)
    ELSE IF cs.metadata[cat].total_entries = 0 THEN Exit(cs, 0)
         ELSE IF answer = "eof" THEN Exit(cs, 1)
         ELSE IF answer # "y" THEN Exit(cs, 0)
         ELSE Exit(clear_category(cs, cat).cs, 0)

\* CacheCLI.cmd_clear(category, key)
cmd_clear(cs, cat, key, answer) ==
    IF cat \notin Registered THEN Exit(cs, 1)
    ELSE IF key # Omitted
    THEN IF ~exists(cs, cat, key) THEN Exit(cs, 0)
         ELSE IF answer = "eof" THEN Exit(cs, 1)
         ELSE IF answer # "y" THEN Exit(cs, 0)
         ELSE LET d == delete(cs, cat, key)
              IN Exit(d.cs, IF d.ret = "True" THEN 0 ELSE 1)
    ELSE IF cs.metadata[cat].total_entries = 0 THEN Exit(cs, 0)
         ELSE IF answer = "eof" THEN Exit(cs, 1)
         ELSE IF answer # "y" THEN Exit(cs, 0)
         ELSE Exit(clear_category(cs, cat).cs, 0)

\* CacheCLI.cmd_validate()
cmd_validate(cs) == Exit(cs, validate(cs).code)

\* one run of the command line tool on the root: CacheCLI constructs its own
\* CacheManager, the command runs on it, main() returns its exit code; the
\* manager of the running program keeps its in-memory index
Cli(op, cat, key, answer, x) ==
    /\ files' = x.cs.files
    /\ diskIndex' = x.cs.diskIndex
    /\ now' = x.cs.now
    /\ last' = [op |-> op, cat |-> cat, key |-> key,
                ret |-> IF x.code = 0 THEN "0" ELSE "1", answer |-> answer]
    /\ UNCHANGED <<metadata, enable_stats, enable_checksums, loads, client, peer, runVars>>

\* the state the tool's manager starts from; the clock moves only when a
\* command reads an artifact
CliState == [Opened(CacheState) EXCEPT !.now = now]
CliReading == [Opened(CacheState) EXCEPT !.now = now + 1]

CliCats == {client, InvalidCategory}

CliLs == \E c \in CliCats \cup {Omitted} : Cli("ls", c, Omitted, "", cmd_ls(CliState, c))
CliStats == \E c \in CliCats \cup {Omitted} : Cli("stats", c, Omitted, "", cmd_stats(CliState, c))
CliInfo ==
    /\ now < MaxClock
    /\ \E c \in CliCats, k \in Keys :
          LET x == cmd_info(CliReading, c, k)
          IN Cli("info", c, k, "",
                 IF x.cs = CliReading THEN Exit(CliState, x.code) ELSE x)
\* does cmd_clear reach its [y/N] prompt
Prompts(cs, cat, key) ==
    /\ cat \in Registered
    /\ IF key # Omitted THEN exists(cs, cat, key) ELSE cs.metadata[cat].total_entries # 0
CliClear ==
    \E c \in CliCats, k \in Keys \cup {Omitted} :
        \E a \in (IF Prompts(CliState, c, k) THEN Answers ELSE {""}) :
            Cli("clear", c, k, a, cmd_clear(CliState, c, k, a))
CliValidate == Cli("validate", Omitted, Omitted, "", cmd_validate(CliState))

\* --------------------------------------------------------- mission runner
MissionCategory == "mission_graph"

NoResults == [k \in {} |-> NoPayload]
NoStats == [cache_hits |-> 0, cache_misses |-> 0, nodes_executed |-> 0, nodes_cached |-> 0]
NoRun == [cmds |-> <<>>, force |-> FALSE, dag |-> MissionDAG(<<>>), pos |-> 1,
          results |-> NoResults, before |-> NoStats, afterClear |-> FALSE, calls |-> 0]

\* the command lists of at most n commands
RECURSIVE Missions(_)
Missions(n) ==
    IF n = 0 THEN {<<>>}
    ELSE Missions(n - 1) \cup
         {Append(m, c) : m \in {x \in Missions(n - 1) : Len(x) = n - 1}, c \in Commands}

\* CachedMissionRunner.__init__
RunnerInit ==
    /\ enable_cache \in BOOLEAN
    /\ stats = NoStats
    /\ pc = "idle"
    /\ mission \in Missions(MaxCmds)
    /\ cur = NoRun
    /\ runs = <<>>
    /\ built = {}
    /\ cleared = FALSE

\* no run_mission call is under way: the last one returned or raised
Idle == pc \in {"idle", "failed"}

\* the nodes MissionDAG(cmds) constructs, as constructed at time t
Constructed(cmds, t) ==
    {[node_type |-> cmds[i].type, params |-> cmds[i].params,
      node_id |-> ComputeHash(cmds[i].type, cmds[i].params), pos |-> i, at |-> t]
        : i \in 1..Len(cmds)}

\* run_mission(mission, force_recompute) up to the loop: the DAG is built
StartRun(cmds, force) ==
    /\ Idle
    /\ Len(runs) < MaxRuns
    /\ cur' = [cmds |-> cmds, force |-> force, dag |-> MissionDAG(cmds), pos |-> 1,
               results |-> NoResults, before |-> stats, afterClear |-> cleared,
               calls |-> 0]
    /\ built' = built \cup Constructed(cmds, now)
    /\ pc' = "executing"
    /\ UNCHANGED <<mgrVars, enable_cache, stats, mission, runs, cleared>>

\* the result is not recorded in the map
PutNothing(results, node_id, result) == results

\* results[node_id] = result
Put(results, node_id, result) ==
    [k \in DOMAIN results \cup {node_id} |-> IF k = node_id THEN result ELSE results[k]]

\* the stored result is read and then treated as absent
load_node_resultUnread(cs, node_id) ==
    LET l == load(cs, MissionCategory, node_id)
    IN IF l.ret = "DecodeError" THEN l ELSE Result(l.cs, "None", NoPayload)

\* every lookup reported as absent
load_node_resultAbsent(cs, node_id) == Result(cs, "None", NoPayload)

\* CachedMissionRunner._load_node_result: KeyError and FileNotFoundError give
\* None, any other exception leaves the method
load_node_result(cs, node_id) ==
    LET l == load(cs, MissionCategory, node_id)
    IN IF l.ret \in {"ok", "DecodeError"} THEN l ELSE Result(cs, "None", NoPayload)

\* the exception of save leaves the method
save_node_resultRaising(cs, node_id, result) ==
    LET s == save(cs, MissionCategory, node_id, result)
    IN Result(s.cs, IF s.ret = "ok" THEN "ok" ELSE "Raised", NoPayload)

\* the result is not written
save_node_resultDropped(cs, node_id, result) == Result(cs, "ok", NoPayload)

\* CachedMissionRunner._save_node_result: every exception is caught and printed
save_node_result(cs, node_id, result) ==
    Result(save(cs, MissionCategory, node_id, result).cs, "ok", NoPayload)

\* a hit counted as a cached node only
CountHitCachedOnly(st) == [st EXCEPT !.nodes_cached = @ + 1]

\* a miss counted as an executed node only
CountMissExecutedOnly(st) == [st EXCEPT !.nodes_executed = @ + 1]

\* the counters of run_mission after a hit and after a miss
CountHit(st) == [st EXCEPT !.cache_hits = @ + 1, !.nodes_cached = @ + 1]
CountMiss(st) == [st EXCEPT !.cache_misses = @ + 1, !.nodes_executed = @ + 1]

\* how the run_mission call under way ends: what it returns (the DAG, the
\* results map, a copy of the stats), or that it raised
Outcome(raised) ==
    [cmds |-> cur.cmds, force |-> cur.force, dag |-> cur.dag,
     node_results |-> cur.results, stats |-> stats, before |-> cur.before,
     afterClear |-> cur.afterClear, raised |-> raised, calls |-> cur.calls]

\* the cache consulted whatever force_recompute says
TriesCacheForced(force) == enable_cache

\* `if self.enable_cache and not force_recompute`: the cache is consulted
TriesCache(force) == enable_cache /\ ~force

\* one iteration of the loop of run_mission over dag.execution_order; an
\* exception that leaves the loader, the executor or the saver ends run_mission
VisitNode ==
    /\ pc = "executing"
    /\ cur.pos <= Len(cur.dag.execution_order)
    /\ LET node_id == cur.dag.execution_order[cur.pos]
           node == cur.dag.nodes[node_id]
           tried == TriesCache(cur.force)
           l == load_node_result(CacheState, node_id)
           hit == tried /\ l.ret = "ok"
           unread == tried /\ l.ret = "DecodeError"
           result == ExecuteNode(node, now + 1)
           s == save_node_result(CacheState, node_id, result)
       IN /\ now' = now + 1
          /\ IF hit
             THEN /\ Becomes(l)
                  /\ cur' = [cur EXCEPT !.results = Put(@, node_id, l.val), !.pos = @ + 1]
                  /\ stats' = CountHit(stats)
                  /\ last' = Called("load", MissionCategory, node_id, l)
                  /\ loads' = [loads EXCEPT ![MissionCategory][node_id] =
                                  [n |-> @.n + 1, at |-> now + 1, ever |-> @.ever + 1]]
                  /\ pc' = pc
                  /\ runs' = runs
             ELSE IF unread \/ result = Raised \/ (enable_cache /\ s.ret # "ok")
             THEN /\ pc' = "failed"
                  /\ cur' = NoRun
                  /\ runs' = Append(runs, Outcome(TRUE))
                  /\ UNCHANGED <<files, diskIndex, metadata, enable_stats,
                                 enable_checksums, client, peer, stats, last, loads>>
             ELSE /\ IF enable_cache
                     THEN /\ Becomes(s)
                          /\ last' = Called("save", MissionCategory, node_id, s)
                          /\ loads' = [loads EXCEPT ![MissionCategory][node_id] =
                                          [n |-> 0, at |-> NoTime, ever |-> @.ever]]
                     ELSE UNCHANGED <<files, diskIndex, metadata, enable_stats,
                                      enable_checksums, client, peer, last, loads>>
                  /\ cur' = [cur EXCEPT !.results = Put(@, node_id, result), !.pos = @ + 1,
                                        !.calls = @ + 1]
                  /\ stats' = CountMiss(stats)
                  /\ pc' = pc
                  /\ runs' = runs
    /\ UNCHANGED <<enable_cache, mission, built, cleared>>

\* the return of run_mission: the DAG, the results map and a copy of the stats
FinishRun ==
    /\ pc = "executing"
    /\ cur.pos > Len(cur.dag.execution_order)
    /\ runs' = Append(runs, Outcome(FALSE))
    /\ pc' = "idle"
    /\ cur' = NoRun
    /\ cleared' = FALSE
    /\ UNCHANGED <<mgrVars, enable_cache, stats, mission, built>>

\* CachedMissionRunner.clear_cache(node_id)
ClearNode(node_id) ==
    /\ Idle
    /\ enable_cache
    /\ LET r == delete(CacheState, MissionCategory, node_id) IN
       /\ Becomes(r)
       /\ last' = Called("delete", MissionCategory, node_id, r)
    /\ cleared' = TRUE
    /\ UNCHANGED <<now, loads, enable_cache, stats, pc, mission, cur, runs, built>>

\* CachedMissionRunner.clear_cache()
ClearCache ==
    /\ Idle
    /\ enable_cache
    /\ LET r == clear_category(CacheState, MissionCategory) IN
       /\ Becomes(r)
       /\ last' = Called("clear_category", MissionCategory, "", r)
    /\ cleared' = TRUE
    /\ UNCHANGED <<now, loads, enable_cache, stats, pc, mission, cur, runs, built>>

\* the stored result of a node is damaged on disk: json.loads raises on it
CorruptNode(node_id) ==
    /\ Idle
    /\ files[MissionCategory][node_id].json \notin {NoFile, Garbage(files[MissionCategory][node_id].json)}
    /\ files' = [files EXCEPT ![MissionCategory][node_id].json = Garbage(@)]
    /\ last' = [op |-> "corrupt", cat |-> MissionCategory, key |-> node_id, ret |-> "json"]
    /\ UNCHANGED <<diskIndex, metadata, enable_stats, enable_checksums, now, loads,
                   client, peer, runVars>>

\* cache.backends[cat].save(key, data, metadata) called on the backend of a
\* binary or model category: the manager's index is not involved
SaveWithMetadata(cat, key, data, meta) ==
    /\ BackendOf[cat] \in {"bin", "model"}
    /\ Accepts(BackendOf[cat], data)
    /\ files' = [files EXCEPT ![cat] = BackendSaveMeta(BackendOf[cat], @, key, data, meta)]
    /\ last' = [op |-> "backend_save", cat |-> cat, key |-> key, ret |-> "ok"]
    /\ UNCHANGED <<diskIndex, metadata, enable_stats, enable_checksums, now, loads,
                   client, peer, runVars>>

DoSaveWithMetadata ==
    \E k \in Keys \ {IndexKey}, d \in Payloads, m \in Metas \cup {NoPayload} :
        SaveWithMetadata(client, k, d, m)

\* a second CacheManager(root) is constructed on the same root: _ensure_structure
\* finds the directories in place, _load_metadata reads the index files
PeerOpen ==
    /\ ~peer.open
    /\ LET o == Opened(CacheState) IN
       /\ files' = o.files
       /\ diskIndex' = o.diskIndex
       /\ peer' = [open |-> TRUE, metadata |-> o.metadata]
    /\ last' = [op |-> "peer_open", cat |-> "", key |-> "", ret |-> "ok"]
    /\ UNCHANGED <<metadata, enable_stats, enable_checksums, now, loads, client, runVars>>

\* save(category, key, data) called on the second manager: it works on the same
\* files and index.json with its own in-memory index
PeerSave(cat, key, data) ==
    /\ peer.open
    /\ now < MaxClock
    /\ LET r == save([CacheState EXCEPT !.metadata = peer.metadata], cat, key, data) IN
       /\ files' = r.cs.files
       /\ diskIndex' = r.cs.diskIndex
       /\ peer' = [peer EXCEPT !.metadata = r.cs.metadata]
       /\ last' = Called("peer_save", cat, key, r)
       /\ now' = IF r.ret = "ok" THEN r.cs.now ELSE now
       /\ loads' = IF r.ret = "ok"
                   THEN [loads EXCEPT ![cat][key] = [n |-> 0, at |-> NoTime, ever |-> @.ever]]
                   ELSE loads
    /\ UNCHANGED <<metadata, enable_stats, enable_checksums, client, runVars>>

DoPeerSave == \E d \in Payloads : PeerSave(client, PeerKey, d)

\* one more successful load of a key at time t
Loaded(ls, id, t) ==
    [ls EXCEPT ![MissionCategory][id] = [n |-> @.n + 1, at |-> t, ever |-> @.ever + 1]]

RECURSIVE AnalyzeFrom(_, _, _)
\* the loop of MissionOptimizer.analyze_mission over dag.execution_order:
\* runner._load_node_result(node_id) for each node, cs.now being the time of the
\* next load; an exception other than KeyError and FileNotFoundError leaves it
AnalyzeFrom(cs, ls, order) ==
    IF order = <<>>
    THEN [cs |-> cs, loads |-> ls, cached |-> <<>>, uncached |-> <<>>, ret |-> "ok"]
    ELSE LET id == Head(order)
             l == load_node_result(cs, id)
         IN IF l.ret = "DecodeError"
            THEN [cs |-> cs, loads |-> ls, cached |-> <<>>, uncached |-> <<>>,
                  ret |-> "DecodeError"]
            ELSE IF l.ret = "ok"
            THEN LET rest == AnalyzeFrom([l.cs EXCEPT !.now = @ + 1],
                                         Loaded(ls, id, cs.now), Tail(order))
                 IN [rest EXCEPT !.cached = <<id>> \o @]
            ELSE LET rest == AnalyzeFrom(cs, ls, Tail(order))
                 IN [rest EXCEPT !.uncached = <<id>> \o @]

\* MissionOptimizer(runner).analyze_mission(mission); a runner constructed with
\* enable_cache=False has cache = None, and the first lookup raises
AnalyzeMission ==
    /\ Idle
    /\ now < MaxClock
    /\ LET order == MissionDAG(mission).execution_order
           a == AnalyzeFrom(CacheState, loads, order)
       IN IF ~enable_cache
          THEN /\ last' = [op |-> "analyze", cat |-> MissionCategory, key |-> "",
                           ret |-> IF order = <<>> THEN "ok" ELSE "AttributeError"]
               /\ UNCHANGED <<files, diskIndex, metadata, now, loads>>
          ELSE /\ files' = a.cs.files
               /\ diskIndex' = a.cs.diskIndex
               /\ metadata' = a.cs.metadata
               /\ now' = a.cs.now - 1
               /\ loads' = a.loads
               /\ last' = [op |-> "analyze", cat |-> MissionCategory, key |-> "",
                           ret |-> a.ret]
    /\ UNCHANGED <<enable_stats, enable_checksums, client, peer, runVars>>

RunMission == \E force \in BOOLEAN : StartRun(mission, force)
\* the caller clears the node of its mission's first command
DoClearNode == /\ mission # <<>>
               /\ ClearNode(ComputeHash(mission[1].type, mission[1].params))
\* the stored result of the mission's first command is damaged
DoCorruptNode == /\ mission # <<>>
                 /\ CorruptNode(ComputeHash(mission[1].type, mission[1].params))

\* ------------------------------------------------------ the specifications
\* the manager called directly; no runner is at work
Init ==
    /\ MgrInit
    /\ client \in ClientCats
    /\ enable_cache = FALSE /\ stats = NoStats /\ pc = "idle" /\ mission = <<>>
    /\ cur = NoRun /\ runs = <<>> /\ built = {} /\ cleared = FALSE

Next == DoSave \/ DoLoad \/ DoExists \/ DoDelete \/ DoClearCategory \/ ClearAll
Spec == Init /\ [][Next]_vars

\* the manager called with two categories of the same backend, keys with a
\* path in them included
IsolationNext ==
    DoSaveShared \/ DoLoadShared \/ DoDeleteShared \/ DoClearShared \/ DoSaveAcross
IsolationInit == Init /\ client = "stencils"
IsolationSpec == IsolationInit /\ [][IsolationNext]_vars

\* the manager called directly while files are modified behind its back
TamperNext == DoSave \/ DoLoad \/ DoDelete \/ DoTamper
TamperSpec == Init /\ [][TamperNext]_vars

\* the manager and direct calls of its binary and model backends with metadata
SidecarNext == DoSave \/ DoLoad \/ DoDelete \/ DoSaveWithMetadata
SidecarSpec == Init /\ [][SidecarNext]_vars

\* the command line tool run on the root of a manager with statistics enabled,
\* while artifacts are saved and modified
CliInit == Init /\ enable_stats
\* the program saves payloads its category's backend accepts
SaveAccepted ==
    \E k \in Keys, d \in {Arr1, Doc1, Bytes1} :
        Accepts(BackendOf[client], d) /\ Save(client, k, d)
CliNext == SaveAccepted \/ DoTamper \/ CliLs \/ CliStats \/ CliInfo \/ CliClear \/ CliValidate
CliSpec == CliInit /\ [][CliNext]_vars

\* two managers with statistics enabled save into the same category of one root
RaceInit == Init /\ enable_stats
RaceNext == DoSave \/ DoLoad \/ PeerOpen \/ DoPeerSave
RaceSpec == RaceInit /\ [][RaceNext]_vars

\* a runner and the CacheManager(root=cache_root) it constructs on an empty root
MissionInit ==
    /\ MgrInit
    /\ enable_stats /\ enable_checksums
    /\ client = MissionCategory
    /\ RunnerInit

MissionNext == RunMission \/ VisitNode \/ FinishRun \/ DoClearNode \/ ClearCache
MissionSpec == MissionInit /\ [][MissionNext]_vars

\* one runner with the cache enabled is given a command list of its caller's
\* choice at every run
ReuseCommands == {CmdEvolve, CmdSnapshot}
ReuseMissions == {m \in Missions(MaxCmds) : \A i \in 1..Len(m) : m[i] \in ReuseCommands}
RunAnyMission == \E m \in ReuseMissions, force \in BOOLEAN : StartRun(m, force)
ReuseInit == MissionInit /\ enable_cache /\ mission = <<>>
ReuseNext == RunAnyMission \/ VisitNode \/ FinishRun
ReuseSpec == ReuseInit /\ [][ReuseNext]_vars

\* a runner given missions with a command whose result cannot be stored
SaveFaultMissions ==
    {<<CmdIoRead>>} \cup {<<c, CmdIoRead>> : c \in Commands}
                    \cup {<<CmdIoRead, c>> : c \in Commands}
SaveFaultInit ==
    /\ MgrInit
    /\ enable_stats /\ enable_checksums
    /\ client = MissionCategory
    /\ enable_cache \in BOOLEAN /\ stats = NoStats /\ pc = "idle"
    /\ mission \in SaveFaultMissions
    /\ cur = NoRun /\ runs = <<>> /\ built = {} /\ cleared = FALSE
SaveFaultSpec == SaveFaultInit /\ [][MissionNext]_vars

\* the runner at work while stored results are damaged behind its back
MissionFaultNext == RunMission \/ VisitNode \/ FinishRun \/ DoCorruptNode
MissionFaultSpec == MissionInit /\ [][MissionFaultNext]_vars

\* the runner at work and its missions analysed in between
AnalyzeNext == RunMission \/ VisitNode \/ FinishRun \/ DoClearNode \/ AnalyzeMission
AnalyzeSpec == MissionInit /\ [][AnalyzeNext]_vars

\* run_mission is one sequential call: once entered, its loop takes its next
\* iteration and its return statement is reached
MissionFaultFairSpec ==
    MissionFaultSpec /\ WF_vars(VisitNode) /\ WF_vars(FinishRun)

\* ------------------------------------------------------- manager claims
UnknownCategory == "KeyError: Unknown cache category"

\* the state in which the call after a call r is made
After(r) == [r.cs EXCEPT !.now = @ + 1]

\* C1: in every reachable state, for every registered category, key and
\* payload the category's backend accepts, save(cat, k, x) immediately
\* followed by load(cat, k) returns x.
C1_RoundTrip ==
    \A c \in Registered : \A k \in KeysOf(c) : \A x \in PayloadsFor(k) :
        LET s == save(CacheState, c, k, x) IN
        s.ret = "ok" =>
            LET l == load(After(s), c, k) IN l.ret = "ok" /\ l.val = x

\* the totals of an index document agree with its entries map
Consistent(idx) ==
    /\ idx.total_entries = Cardinality(DOMAIN idx.entries)
    /\ idx.total_size_mb = Mb(SumSizes(idx.entries))

\* C6: after any sequence of save, load, delete, clear_category and
\* clear_all, every category index (in memory and as persisted) has
\* total_entries == |entries| and total_size_mb == sum(size_bytes) / 1024^2.
C6_AggregateConsistency ==
    \A c \in Registered : Consistent(metadata[c]) /\ Consistent(diskIndex[c])

C6_Witness ==
    /\ last.op = "delete" /\ last.ret = "True" /\ last.key = "k1"
    /\ metadata[last.cat].total_entries = 1
    /\ metadata[last.cat].total_size_mb # Mb(0)

\* C7: with statistics enabled, the entry of a saved key has access_count
\* equal to the number of successful loads of the key since its save, and
\* last_accessed equal to the time of the latest of them (none when 0).
C7_AccessAccounting ==
    enable_stats =>
        \A c \in Registered : \A k \in DOMAIN metadata[c].entries :
            /\ metadata[c].entries[k].access_count = loads[c][k].n
            /\ metadata[c].entries[k].last_accessed = loads[c][k].at

C7_Witness ==
    /\ last.op = "load" /\ last.ret = "ok"
    /\ \E c \in Registered : \E k \in DOMAIN metadata[c].entries :
          /\ metadata[c].entries[k].access_count = 2
          /\ metadata[c].entries[k].last_accessed = now

\* access_count of the entry of k in c does not decrease in a step
CountKept(c, k) ==
    metadata'[c].entries[k].access_count >= metadata[c].entries[k].access_count

\* the step is a save that wrote the entry of k in c
SavedNow(c, k) ==
    /\ last'.op = "save" /\ last'.ret = "ok" /\ last'.cat = c /\ last'.key = k
    /\ now' # now
    /\ metadata'[c].entries[k].created_at = now'

\* C8 (as stated): across every manager operation during which the key's
\* entry exists, a save that overwrites the key included, the entry's
\* access_count never decreases.
C8_AccessCountMonotone ==
    [][\A c \in Registered :
          \A k \in DOMAIN metadata[c].entries \cap DOMAIN metadata'[c].entries :
              CountKept(c, k)]_vars

\* C8 (amended): the entry's access_count never decreases, except that a
\* save of the key itself replaces the entry and resets access_count to 0.
C8_AccessCountMonotoneUnlessSaved ==
    [][\A c \in Registered :
          \A k \in DOMAIN metadata[c].entries \cap DOMAIN metadata'[c].entries :
              \/ CountKept(c, k)
              \/ SavedNow(c, k) /\ metadata'[c].entries[k].access_count = 0]_vars

C8_Witness ==
    /\ last.op = "save" /\ last.ret = "ok" /\ last.cat \in Registered
    /\ last.key = "k1"
    /\ last.key \in DOMAIN metadata[last.cat].entries
    /\ metadata[last.cat].entries[last.key].access_count = 0
    /\ metadata[last.cat].entries[last.key].created_at = now
    /\ loads[last.cat][last.key].ever > 0

\* C9: delete(cat, k) of an existing key returns True, after which
\* exists(cat, k) is False and the index has no entry for k; delete of an
\* absent key returns False and changes neither artifacts nor index.
C9_Deletion ==
    \A c \in Registered : \A k \in KeysOf(c) :
        LET d == delete(CacheState, c, k) IN
        IF exists(CacheState, c, k)
        THEN /\ d.ret = "True"
             /\ ~exists(After(d), c, k)
             /\ k \notin DOMAIN d.cs.metadata[c].entries
        ELSE /\ d.ret = "False"
             /\ d.cs = CacheState

\* C10: save and load called with a category that is not registered raise
\* the unknown-category KeyError and leave every category's artifacts and
\* index unchanged.
C10_UnknownCategory ==
    [][(last'.op \in {"save", "load"} /\ last'.cat \notin Registered)
          => /\ last'.ret = UnknownCategory
             /\ UNCHANGED <<files, metadata, diskIndex>>]_vars

C10_Witness ==
    /\ last.op = "save" /\ last.cat = InvalidCategory /\ last.ret = UnknownCategory
    /\ \E c \in Registered : metadata[c].total_entries > 0

\* ------------------------------------------------------- mission claims
\* runs i and i + 1 are the same mission run twice through run_mission:
\* cache enabled, no force_recompute, nothing deleted in between
RunTwice(i) ==
    /\ i + 1 <= Len(runs)
    /\ enable_cache
    /\ runs[i].cmds = runs[i + 1].cmds
    /\ ~runs[i].raised /\ ~runs[i + 1].raised
    /\ ~runs[i].force /\ ~runs[i + 1].force
    /\ ~runs[i + 1].afterClear

C3_SecondRunResults ==
    \A i \in 1..Len(runs) :
        RunTwice(i) => runs[i + 1].node_results = runs[i].node_results

\* the number of distinct node ids of a command list
Distinct(cmds) == Cardinality({ComputeHash(cmds[i].type, cmds[i].params) : i \in 1..Len(cmds)})

\* the first run of a fresh runner on an empty mission category
FirstRun == Len(runs) >= 1 /\ ~runs[1].raised

AsDict(ps) == {ps[i] : i \in 1..Len(ps)}

\* C5: node_id is a function of (node_type, params) only: two nodes with the
\* same type and the same params mapping have the same node_id, whatever the
\* insertion order of the keys, the position in the list or the time.
C5_NodeIdDeterminism ==
    \A a, b \in built :
        (a.node_type = b.node_type /\ AsDict(a.params) = AsDict(b.params))
            => a.node_id = b.node_id

C5_Witness ==
    \E a, b \in built :
        /\ a.node_type = b.node_type /\ AsDict(a.params) = AsDict(b.params)
        /\ a.params # b.params /\ a.pos # b.pos /\ a.at # b.at

\* ------------------------------------------------ manager claims, errors
NotFound == "KeyError: Cache key not found"

Unsupported(c, x) ==
    CASE BackendOf[c] = "bin"   -> x.kind # "bytes"
      [] BackendOf[c] = "model" -> x.kind \notin {"dict", "arrdict"}
      [] BackendOf[c] = "fs"    -> x.kind \notin {"ndarray", "arrdict", "dict", "list", "tuple"}

\* C12: when the category's backend rejects the payload shape, Save fails
\* with an unsupported-type error, writes no artifact for the key and leaves
\* the category index unchanged.
C12_UnsupportedPayload ==
    \A c \in Registered : \A k \in KeysOf(c) : \A x \in Payloads :
        Unsupported(c, x) =>
            LET s == save(CacheState, c, k, x)
            IN s.ret = "ValueError" /\ s.cs = CacheState

C12_Witness ==
    /\ last.op = "save" /\ last.ret = "ValueError" /\ last.key = "k1"
    /\ metadata[last.cat].total_entries > 0

\* the keys stored in a category: those of its index entries, and without
\* statistics those with an artifact that a save wrote
Stored(c) ==
    IF enable_stats THEN DOMAIN metadata[c].entries
    ELSE {k \in KeysOf(c) : /\ exists(CacheState, c, k)
                            /\ files[c][k] # [NoFiles EXCEPT !.json = IndexContent]}

\* C13: ClearCategory(cat) returns the number of entries that were stored in
\* cat, and afterwards the entries map is empty, total_entries == 0,
\* total_size_mb == 0 and Exists(cat, k) is false for every key previously
\* saved.
C13_ClearCategory ==
    \A c \in Registered :
        LET r == clear_category(CacheState, c) IN
        /\ r.val.val = Cardinality(Stored(c))
        /\ r.cs.metadata[c] = EmptyIndex
        /\ \A k \in Stored(c) : ~exists(After(r), c, k)

\* ------------------------------------------------- integrity on the read path
\* the file of <key>.<ext> holds what the last save of the key wrote
IsArtifact(c, k, ext) ==
    /\ k \in DOMAIN metadata[c].entries
    /\ metadata[c].entries[k].checksum = ComputeChecksum(files[c][k][ext])

\* the payload a file of <key>.<ext> decodes to
Decode(ext, file) ==
    CASE ext = "npz"  -> NpzLoad(file)
      [] ext = "json" -> JsonLoads(file)
      [] ext = "dat"  -> BytesRead(file)
      [] ext = "pt"   -> TorchLoad(file)

\* C14: after the on-disk artifact of a saved key is modified directly,
\* CacheManager.load still succeeds, returns the modified content, raises no
\* integrity error, and leaves the stored checksum and size_bytes unchanged.
C14_NoVerifyOnRead ==
    [][(last'.op = "tamper" /\ IsArtifact(last'.cat, last'.key, last'.ret))
       => LET c == last'.cat
              k == last'.key
              l == load(CacheState', c, k)
          IN /\ l.ret = "ok"
             /\ l.val = Decode(last'.ret, files'[c][k][last'.ret])
             /\ l.cs.metadata[c].entries[k].checksum = metadata[c].entries[k].checksum
             /\ l.cs.metadata[c].entries[k].size_bytes = metadata[c].entries[k].size_bytes]_vars

Visiting == pc = "executing" /\ cur.pos <= Len(cur.dag.execution_order)
NodeId == cur.dag.execution_order[cur.pos]
Present == exists(CacheState, MissionCategory, NodeId)

\* the executor raises on the node: timesteps is not a number
Raises(node) ==
    /\ node.node_type = "evolve"
    /\ Get(node.params, "timesteps", Item("int", 100, "")).kind \notin {"int", "float"}

\* the step loads the stored result, records one hit and does not execute
HitStep ==
    /\ pc' = "executing" /\ cur'.pos = cur.pos + 1
    /\ cur'.results[NodeId] = load(CacheState, MissionCategory, NodeId).val
    /\ stats'.cache_hits = stats.cache_hits + 1
    /\ stats'.cache_misses = stats.cache_misses
    /\ cur'.calls = cur.calls

\* the step executes the node once and records one miss
ExecutedStep ==
    /\ pc' = "executing" /\ cur'.pos = cur.pos + 1
    /\ cur'.calls = cur.calls + 1
    /\ stats'.cache_misses = stats.cache_misses + 1
    /\ stats'.cache_hits = stats.cache_hits

\* the result of the step is stored under the node's id
SavedStep ==
    /\ exists(CacheState', MissionCategory, NodeId)
    /\ files'[MissionCategory][NodeId].json = JsonDumps(cur'.results[NodeId])

LastRun == runs[Len(runs)]

\* C17: if the executor raises for the node at position i, run_mission
\* propagates the failure and stops: no node at a later position is loaded,
\* executed or saved, nothing is retried, and the results already stored for
\* positions before i remain in the cache.
C17_ExecutorFailureAborts ==
    [][(Visiting /\ Raises(cur.dag.nodes[NodeId]) /\ ~(enable_cache /\ ~cur.force /\ Present))
       => /\ pc' = "failed" /\ cur' = NoRun
          /\ Len(runs') = Len(runs) + 1
          /\ runs'[Len(runs')].raised
          /\ runs'[Len(runs')].node_results = cur.results
          /\ runs'[Len(runs')].calls = cur.calls
          /\ DOMAIN cur.results = {cur.dag.execution_order[j] : j \in 1..(cur.pos - 1)}
          /\ UNCHANGED <<files, diskIndex, metadata, stats>>
          /\ enable_cache =>
                \A j \in 1..(cur.pos - 1) :
                    exists(CacheState', MissionCategory, cur.dag.execution_order[j])]_vars

C17_Witness ==
    /\ pc = "failed" /\ enable_cache
    /\ LastRun.raised /\ LastRun.calls = 1
    /\ \A id \in DOMAIN LastRun.node_results : exists(CacheState, MissionCategory, id)
    /\ Len(LastRun.cmds) = 2

\* C18: if a node's key is present in the mission category but loading it
\* fails, run_mission treats the node as a miss - it invokes the executor,
\* stores the result and continues - and does not propagate the load error.
C18_ReadFailureIsMiss ==
    [][(/\ Visiting /\ enable_cache /\ ~cur.force /\ Present
        /\ ~Raises(cur.dag.nodes[NodeId])
        /\ load(CacheState, MissionCategory, NodeId).ret # "ok")
       => ExecutedStep /\ SavedStep]_vars

\* C19: two managers on one root each rewrite index.json from their own
\* in-memory index, so the last writer's document wins whole: after a successful
\* save by either manager the persisted index is that manager's index, its
\* entries are the ones that manager knew plus the saved key, and an entry only
\* the other manager had written is gone from it while its artifact stays on disk.
C19_LastWriterWins ==
    [][/\ (last'.op = "peer_save" /\ last'.ret = "ok")
          => /\ diskIndex'[client] = peer'.metadata[client]
             /\ DOMAIN diskIndex'[client].entries =
                    DOMAIN peer.metadata[client].entries \cup {PeerKey}
             /\ \A k \in Keys : k \notin DOMAIN peer.metadata[client].entries
                    => /\ k \notin DOMAIN diskIndex'[client].entries
                       /\ files'[client][k] = files[client][k]
       /\ (last'.op = "save" /\ last'.ret = "ok")
          => /\ diskIndex'[client] = metadata'[client]
             /\ DOMAIN diskIndex'[client].entries =
                    DOMAIN metadata[client].entries \cup {last'.key}
             /\ PeerKey \notin DOMAIN diskIndex'[client].entries
             /\ files'[client][PeerKey] = files[client][PeerKey]]_vars

\* both artifacts are on disk and index.json holds the entry of only one of them
C19_Witness ==
    /\ peer.open
    /\ exists(CacheState, client, "k1")
    /\ exists(CacheState, client, PeerKey)
    /\ files[client][IndexKey].json = IndexContent
    /\ Cardinality(DOMAIN diskIndex[client].entries \cap {"k1", PeerKey}) = 1
\* C20: after a successful save(cat, k, x) with statistics enabled the index entry
\* of k has access_count 0 and no last_accessed, its size_bytes is what the
\* backend's get_size(k) reports, and its checksum is the sha256 of the bytes of
\* k's artifact when checksums are enabled and null when they are not.
C20_SavedEntry ==
    [][(last'.op = "save" /\ last'.ret = "ok" /\ enable_stats)
          => LET cat == last'.cat
                 k == last'.key
                 b == BackendOf[cat]
             IN /\ k \in DOMAIN metadata'[cat].entries
                /\ diskIndex'[cat] = metadata'[cat]
                /\ metadata'[cat].entries[k].access_count = 0
                /\ metadata'[cat].entries[k].last_accessed = NoTime
                /\ metadata'[cat].entries[k].size_bytes = BackendGetSize(b, files'[cat], k)
                /\ metadata'[cat].entries[k].checksum =
                      IF enable_checksums
                      THEN ComputeChecksum(BackendFile(b, files'[cat], k))
                      ELSE NoFile]_vars
\* C21: in every reachable state, for every registered category and key and any
\* two payloads x1, x2 the backend accepts, save(cat, k, x1) followed by
\* save(cat, k, x2) leaves one index entry for k, load(cat, k) then returns x2,
\* and the entry's size_bytes and checksum are those of the file load reads.
C21_SameKeyLastWriterWins ==
    \A c \in Registered : \A k \in KeysOf(c) : \A x1, x2 \in PayloadsFor(k) :
        LET s1 == save(CacheState, c, k, x1)
            s2 == save(After(s1), c, k, x2)
        IN (s1.ret = "ok" /\ s2.ret = "ok") =>
              LET l == load(After(s2), c, k)
                  read == BackendFile(BackendOf[c], s2.cs.files[c], k)
              IN /\ l.ret = "ok"
                 /\ l.val = x2
                 /\ enable_stats =>
                       /\ k \in DOMAIN s2.cs.metadata[c].entries
                       /\ s2.cs.metadata[c].total_entries
                            = Cardinality(DOMAIN metadata[c].entries \cup {k})
                       /\ s2.cs.metadata[c].entries[k].size_bytes = FileSize(read)
                       /\ s2.cs.metadata[c].entries[k].checksum =
                             IF enable_checksums THEN ComputeChecksum(read) ELSE NoFile
\* C22: exists(cat, k) is True exactly when a save of k into cat has completed
\* and no delete of k, clear_category of cat or clear_all has run since: it is
\* False for every key on a fresh root, becomes True by a successful save of that
\* key, False by its removal, and is changed by no other call; a call of exists
\* changes neither files nor index.
C22_ExistsReflectsSaves ==
    /\ \A c \in Registered : \A k \in KeysOf(c) : ~exists(CacheState, c, k)
    /\ [][/\ \A c \in Registered : \A k \in KeysOf(c) :
              exists(CacheState', c, k) =
                 IF last'.op = "save" /\ last'.ret = "ok" /\ last'.cat = c /\ last'.key = k
                 THEN TRUE
                 ELSE IF \/ last'.op = "delete" /\ last'.cat = c /\ last'.key = k
                         \/ last'.op = "clear_category" /\ last'.cat = c
                         \/ last'.op = "clear_all"
                 THEN FALSE
                 ELSE exists(CacheState, c, k)
          /\ last'.op = "exists" => UNCHANGED <<files, diskIndex, metadata>>]_vars
\* C23: in every reachable state, saving a blob or a checkpoint x under key k
\* with metadata m through the binary or the model backend, load_metadata(k)
\* returns m and load(k) returns x.
C23_SidecarRoundTrip ==
    \A c \in Registered : \A k \in KeysOf(c) : \A x \in Payloads : \A m \in Metas :
        LET b == BackendOf[c] IN
        (b \in {"bin", "model"} /\ Accepts(b, x)) =>
            LET dir == BackendSaveMeta(b, files[c], k, x, m)
            IN /\ BackendLoadMetadata(dir, k) = m
               /\ BackendLoad(b, dir, k) = x
\* -------------------------------------------------------------- CLI claims
CliOps == {"ls", "stats", "info", "clear", "validate"}
\* the last step ran the command line tool
CliStep == last'.op \in CliOps
UnknownCat == last'.cat # Omitted /\ last'.cat \notin Registered
\* a key was given that the tool's manager does not find in the (known) category
UnknownKey ==
    /\ last'.key # Omitted
    /\ last'.cat \in Registered
    /\ ~exists(CliState, last'.cat, last'.key)
ValidateFails == last'.op = "validate" /\ validate(CliState).errors # {}

\* C24: every run of ls, stats, info, clear or validate exits non-zero when it
\* is given an unknown category or an unknown key and when validate finds an
\* integrity failure; ls, stats and validate exit 0 otherwise.
C24_ExitCodes ==
    [][CliStep =>
          /\ (UnknownCat \/ UnknownKey \/ ValidateFails) => last'.ret # "0"
          /\ (last'.op \in {"ls", "stats", "validate"} /\ ~UnknownCat /\ ~ValidateFails)
                => last'.ret = "0"]_vars

\* C24 as the code has it: the exit code is non-zero exactly for an unknown
\* category, for info on a key that has no artifact or no index entry, for a
\* clear whose prompt is not answered, and for a validate that finds an error;
\* clear with a key that does not exist exits 0 and changes nothing.
C24_ExitCodesClearWarns ==
    [][CliStep =>
          /\ last'.ret # "0" <=>
                \/ UnknownCat
                \/ /\ last'.op = "info" /\ last'.cat \in Registered
                   /\ \/ ~exists(CliState, last'.cat, last'.key)
                      \/ last'.key \notin DOMAIN CliState.metadata[last'.cat].entries
                \/ last'.op = "clear" /\ last'.answer = "eof"
                \/ ValidateFails
          /\ (last'.op = "clear" /\ UnknownKey)
                => /\ last'.ret = "0"
                   /\ files' = CliState.files
                   /\ diskIndex' = CliState.diskIndex]_vars

\* clear was run for a key that is not in a category that holds another key
C24_Witness ==
    /\ last.op = "clear" /\ last.cat \in Registered /\ last.key = "k1"
    /\ last.answer = "" /\ last.ret = "0"
    /\ ~exists(CacheState, last.cat, "k1")
    /\ IndexKey \in DOMAIN diskIndex[last.cat].entries
\* ------------------------------------------------ failures of the saver
\* the visit executes the node and the save of its result fails
SaveFails ==
    /\ Visiting /\ enable_cache
    /\ ~Raises(cur.dag.nodes[NodeId])
    /\ load_node_result(CacheState, NodeId).ret = "None" \/ cur.force
    /\ save(CacheState, MissionCategory, NodeId,
            ExecuteNode(cur.dag.nodes[NodeId], now + 1)).ret # "ok"

\* C25: a failure of save while run_mission stores a node's result ends
\* run_mission with that error.
C25_SaveFailurePropagates ==
    [][SaveFails => (pc' = "failed" /\ runs'[Len(runs')].raised)]_vars

\* C25 as the code has it: the failure is caught inside _save_node_result; the
\* run goes on to the next node with the result in its results map and one miss
\* counted, and nothing is stored for the node.
C25_SaveFailureCaught ==
    [][SaveFails
         => /\ ExecutedStep
            /\ cur'.results[NodeId] = ExecuteNode(cur.dag.nodes[NodeId], now + 1)
            /\ runs' = runs
            /\ UNCHANGED <<files, diskIndex, metadata>>
            /\ ~exists(CacheState', MissionCategory, NodeId)]_vars

\* a run returned normally with the result of a node that could not be stored
C25_Witness ==
    /\ Len(runs) >= 1 /\ enable_cache /\ pc = "idle"
    /\ ~LastRun.raised
    /\ Len(LastRun.cmds) = 2
    /\ \E id \in NestedIds : /\ id \in DOMAIN LastRun.node_results
                              /\ ~exists(CacheState, MissionCategory, id)
    /\ LastRun.stats.cache_misses >= 2
\* ------------------------------------------------------------ DAG claims
\* the ids in a node's dependencies list
Deps(dag, id) == {dag.nodes[id].dependencies[i] : i \in 1..Len(dag.nodes[id].dependencies)}

\* the position of the first occurrence of id in the execution order
FirstAt(dag, id) ==
    CHOOSE i \in 1..Len(dag.execution_order) :
        /\ dag.execution_order[i] = id
        /\ \A j \in 1..(i - 1) : dag.execution_order[j] # id

RECURSIVE Ancestors(_, _, _)
\* the nodes reached from the set ids along at most n dependency edges
Ancestors(dag, ids, n) ==
    IF n = 0 THEN {}
    ELSE LET next == UNION {Deps(dag, id) : id \in ids \cap DOMAIN dag.nodes}
         IN next \cup Ancestors(dag, next, n - 1)

\* every dependency of a node occurs before the node's first occurrence
Topological(dag) ==
    \A id \in DOMAIN dag.nodes : \A d \in Deps(dag, id) :
        \E j \in 1..(FirstAt(dag, id) - 1) : dag.execution_order[j] = d

\* no node depends on itself, directly or transitively
Acyclic(dag) ==
    \A id \in DOMAIN dag.nodes :
        id \notin Ancestors(dag, {id}, Cardinality(DOMAIN dag.nodes))

\* C26: the execution_order of the DAG run_mission builds from its command list
\* is a topological ordering of the dependency relation, and that relation is
\* acyclic.
C26_TopologicalOrder ==
    pc = "executing" => (Topological(cur.dag) /\ Acyclic(cur.dag))
\* C27: in the DAG run_mission builds, the node of the first command has no
\* dependencies, the node of every later command has exactly one, the id of the
\* node of the command before it, and no node has two or more.
C27_LinearChain ==
    pc = "executing" =>
        LET order == cur.dag.execution_order
            deps(i) == cur.dag.nodes[order[i]].dependencies
        IN /\ Len(order) = Len(cur.cmds)
           /\ \A i \in 1..Len(order) :
                 /\ order[i] = ComputeHash(cur.cmds[i].type, cur.cmds[i].params)
                 /\ deps(i) = IF i = 1 THEN <<>> ELSE <<order[i - 1]>>
           /\ \A id \in DOMAIN cur.dag.nodes : Len(cur.dag.nodes[id].dependencies) <= 1
\* ----------------------------------------------------- reuse across runs
\* the command being visited was executed by an earlier run, which stored its
\* result, and the entry is still stored
StoredEarlier ==
    \E i \in 1..Len(runs) : \E j \in 1..Len(runs[i].cmds) :
        /\ runs[i].cmds[j] = cur.cmds[cur.pos]
        /\ runs[i].dag.execution_order[j] \in DOMAIN runs[i].node_results
        /\ exists(CacheState, MissionCategory, runs[i].dag.execution_order[j])

\* C28: a command that an earlier run executed and stored is a cache hit in
\* every later run while its entry remains stored, whatever its position and
\* whatever precedes it: the stored result is returned and the executor is not
\* invoked.
C28_IndependentOfNeighbours ==
    [][(Visiting /\ StoredEarlier) => HitStep]_vars

\* C28 for runs without force_recompute
C28_IndependentUnlessForced ==
    [][(Visiting /\ StoredEarlier)
         => IF cur.force
            THEN ExecutedStep /\ SavedStep
            ELSE /\ HitStep
                 /\ cur'.results[NodeId] = JsonLoads(files[MissionCategory][NodeId].json)]_vars

\* the second run found at its second position, after a command the first run
\* did not have, what the first run had executed at its first position
C28_Witness ==
    /\ Len(runs) = 2 /\ ~runs[1].raised /\ ~runs[2].raised /\ ~runs[2].force
    /\ Len(runs[1].cmds) >= 1 /\ Len(runs[2].cmds) = 2
    /\ runs[2].cmds[2] = runs[1].cmds[1]
    /\ \A j \in 1..Len(runs[1].cmds) : runs[1].cmds[j] # runs[2].cmds[1]
    /\ runs[2].calls = 1
    /\ runs[2].stats.cache_hits = runs[1].stats.cache_hits + 1

\* the bytes load reads for a key: the file the backend opens; for index.json
\* as _save_metadata wrote it, the index document it holds
ArtifactOf(cs, cat, key) ==
    LET f == BackendFile(BackendOf[cat], cs.files[cat], key)
    IN <<f, IF f = IndexContent THEN cs.diskIndex[cat] ELSE EmptyIndex>>

\* C29: a successful load(cat, k) changes only access_count (by +1) and
\* last_accessed (to the time of the call) of the entry of k and writes the index
\* to index.json before it returns; the artifact of k, the entry's other fields,
\* the category totals, every other entry and every other category are unchanged.
C29_LoadFrame ==
    [][(last'.op = "load" /\ last'.ret = "ok")
          => LET cat == last'.cat
                 k == last'.key
             IN /\ ArtifactOf(CacheState', cat, k) = ArtifactOf(CacheState, cat, k)
                /\ metadata' =
                      IF k \in DOMAIN metadata[cat].entries
                      THEN [metadata EXCEPT ![cat].entries[k] =
                               [@ EXCEPT !.access_count = @ + 1, !.last_accessed = now']]
                      ELSE metadata
                /\ diskIndex'[cat] = metadata'[cat]
                /\ \A c \in Registered \ {cat} :
                      files'[c] = files[c] /\ diskIndex'[c] = diskIndex[c]]_vars

\* C30: when save, load, delete or clear_category has returned, index.json of
\* the category holds the manager's in-memory index: a CacheManager constructed
\* on the same root at that moment reads the same entries, totals and access
\* counts for the category.
C30_WriteThrough ==
    [][(last'.op \in {"save", "load", "delete", "clear_category"}
          /\ last'.cat \in Registered)
          => Opened(CacheState').metadata[last'.cat] = metadata'[last'.cat]]_vars

\* ------------------------------------------------ the run's state machine
\* Building: run_mission is entered and the whole DAG is built before any visit
BuildingStep ==
    /\ cur'.dag = MissionDAG(cur'.cmds)
    /\ Len(cur'.dag.execution_order) = Len(cur'.cmds)
    /\ cur'.pos = 1 /\ cur'.results = NoResults /\ cur'.calls = 0

\* Executing: the position under visit is left for the next one, the DAG kept,
\* a result recorded for the node visited
ExecutingStep ==
    /\ Visiting
    /\ cur'.pos = cur.pos + 1 /\ cur'.dag = cur.dag /\ cur'.cmds = cur.cmds
    /\ NodeId \in DOMAIN cur'.results

\* Done: every position has been visited and the run returns its results
DoneStep ==
    /\ cur.pos = Len(cur.dag.execution_order) + 1
    /\ ~LastRun'.raised
    /\ DOMAIN LastRun'.node_results =
          {cur.dag.execution_order[i] : i \in 1..Len(cur.dag.execution_order)}

\* the run is left because the executor raised on the node under visit
AbortStep ==
    /\ Visiting
    /\ LastRun'.raised
    /\ Raises(cur.dag.nodes[NodeId])
    /\ ~(enable_cache /\ ~cur.force /\ Present)

\* C31: every run_mission call passes through Building, Executing and Done in
\* that order - the whole DAG is built before the first node is visited, each
\* position of execution_order is visited exactly once - and always terminates,
\* in Done or by aborting on an executor failure.
C31_RunStateMachine ==
    /\ [][/\ (Idle /\ pc' = "executing") => BuildingStep
          /\ (pc = "executing" /\ pc' = "executing") => ExecutingStep
          /\ (pc = "executing" /\ pc' = "idle") => DoneStep
          /\ (pc = "executing" /\ pc' = "failed") => AbortStep
          /\ (Idle /\ pc' # "executing") => (pc' = pc /\ cur' = cur)]_vars
    /\ (pc = "executing") ~> Idle

\* ------------------------------------------------------- the node loop
\* the ids of the nodes at the positions before position i of the run under way
VisitedBefore(i) == {cur.dag.execution_order[j] : j \in 1..(i - 1)}

\* the step invokes the executor on the node under visit
InvokesExecutor ==
    /\ Visiting
    /\ \/ cur'.calls = cur.calls + 1
       \/ pc' = "failed" /\ Raises(cur.dag.nodes[NodeId])

\* C32: the node loop is strictly sequential: nodes are visited in command-list
\* order, and when the executor is invoked for the node at position i the
\* results map holds a result for every node at a position before i and for no
\* other node; a visit leaves the results recorded for the other nodes as they
\* were.
C32_SequentialLoop ==
    [][/\ Visiting =>
            \A i \in 1..Len(cur.cmds) :
                cur.dag.execution_order[i] = ComputeHash(cur.cmds[i].type, cur.cmds[i].params)
       /\ InvokesExecutor => DOMAIN cur.results = VisitedBefore(cur.pos)
       /\ (Visiting /\ pc' = "executing") =>
             /\ cur'.pos = cur.pos + 1
             /\ DOMAIN cur'.results = VisitedBefore(cur.pos) \cup {NodeId}
             /\ \A id \in DOMAIN cur.results \ {NodeId} :
                   cur'.results[id] = cur.results[id]]_vars

\* a run of two different commands returned after executing both
C32_Witness ==
    /\ Idle /\ runs # <<>>
    /\ ~LastRun.raised
    /\ Len(LastRun.cmds) = 2 /\ LastRun.cmds[1] # LastRun.cmds[2]
    /\ LastRun.calls = 2
    /\ Cardinality(DOMAIN LastRun.node_results) = 2

\* ------------------------------------------------------ force_recompute
\* C33: in a run with force_recompute=True and the cache enabled no node is
\* loaded from the cache: for every visited node the executor is invoked,
\* cache_hits and the access statistics stay as they are, and when the executor
\* returns one miss is recorded and the fresh result replaces whatever was
\* stored under the node's id.
C33_ForceBypassesRead ==
    [][(Visiting /\ enable_cache /\ cur.force)
         => /\ InvokesExecutor
            /\ last'.op # "load"
            /\ loads'[MissionCategory][NodeId].ever = loads[MissionCategory][NodeId].ever
            /\ stats'.cache_hits = stats.cache_hits
            /\ stats'.nodes_cached = stats.nodes_cached
            /\ ~Raises(cur.dag.nodes[NodeId])
                 => /\ ExecutedStep /\ SavedStep
                    /\ cur'.results[NodeId] = ExecuteNode(cur.dag.nodes[NodeId], now')
                    /\ metadata'[MissionCategory].entries[NodeId].access_count = 0]_vars

\* a forced run over results an earlier run had stored returned: every node
\* was executed again, no hit was added, and a stored snapshot is the new one
C33_Witness ==
    /\ Len(runs) = 2 /\ enable_cache
    /\ ~runs[1].raised /\ ~runs[1].force /\ runs[1].calls >= 1
    /\ ~runs[2].raised /\ runs[2].force /\ ~runs[2].afterClear
    /\ Len(runs[2].cmds) >= 1 /\ runs[2].calls = Len(runs[2].cmds)
    /\ runs[2].stats.cache_hits = runs[2].before.cache_hits
    /\ runs[2].stats.cache_misses = runs[2].before.cache_misses + Len(runs[2].cmds)
    /\ \E i \in 1..Len(runs[2].cmds) :
          LET id == runs[2].dag.execution_order[i]
          IN /\ id \in DOMAIN runs[1].node_results
             /\ runs[2].node_results[id] # runs[1].node_results[id]
             /\ files[MissionCategory][id].json = JsonDumps(runs[2].node_results[id])

\* C34: with statistics enabled, one manager and an initially empty root, after
\* any sequence of save, load, delete, clear_category and clear_all the keys of
\* a category's index are the keys its backend lists an artifact for.
C34_IndexMatchesArtifacts ==
    enable_stats =>
        \A c \in Registered :
            DOMAIN metadata[c].entries = ListKeys(BackendOf[c], files[c])

\* C35: on a cache whose files were written and removed only through the
\* manager's operations, the validate pass of the command line tool finds no
\* integrity error and returns 0.
C35_ValidateClean ==
    /\ validate(CliState).errors = {}
    /\ cmd_validate(CliState).code = 0

\* C36: save, load, delete and clear_category on one category leave the files
\* and the index - on disk and in memory - of every other category unchanged.
C36_CategoryIsolation ==
    [][(last'.op \in {"save", "load", "delete", "clear_category"})
          => \A c \in Registered \ {last'.cat} :
                /\ files'[c] = files[c]
                /\ diskIndex'[c] = diskIndex[c]
                /\ metadata'[c] = metadata[c]]_vars

\* ------------------------------------------------------ the runner's counters
\* the nodes a runner has accounted for
Accounted(st) == st.cache_hits + st.cache_misses

\* C37: in every reachable state of a runner cache_hits = nodes_cached and
\* cache_misses = nodes_executed; no counter ever decreases; every run_mission
\* call that returned, over a command list of length N, raised
\* cache_hits + cache_misses by exactly N.
C37_RunnerCounters ==
    /\ [](/\ stats.cache_hits = stats.nodes_cached
          /\ stats.cache_misses = stats.nodes_executed
          /\ \A i \in 1..Len(runs) :
                ~runs[i].raised =>
                    Accounted(runs[i].stats) = Accounted(runs[i].before) + Len(runs[i].cmds))
    /\ [][/\ stats'.cache_hits >= stats.cache_hits
          /\ stats'.cache_misses >= stats.cache_misses
          /\ stats'.nodes_cached >= stats.nodes_cached
          /\ stats'.nodes_executed >= stats.nodes_executed]_vars

\* a run of two commands returned with a hit and a miss of its own
C37_Witness ==
    /\ Idle /\ runs # <<>>
    /\ ~LastRun.raised /\ Len(LastRun.cmds) = 2
    /\ LastRun.stats.cache_hits > LastRun.before.cache_hits
    /\ LastRun.stats.cache_misses > LastRun.before.cache_misses
    /\ stats = LastRun.stats

\* C38: for the binary and the model backend, in every state reached by saves
\* and deletes, load_metadata(k) after a save of k returns the metadata passed
\* to that save - none when none was passed - and returns none after a delete
\* of k.
C38_SidecarTracksLatestSave ==
    \A c \in Registered : \A k \in KeysOf(c) :
        LET b == BackendOf[c] IN
        b \in {"bin", "model"} =>
            /\ \A x \in Payloads : \A m \in Metas \cup {NoPayload} :
                  Accepts(b, x) =>
                      BackendLoadMetadata(BackendSaveMeta(b, files[c], k, x, m), k) = m
            /\ BackendLoadMetadata(BackendDelete(b, files[c], k), k) = NoPayload

\* C39: analyze_mission is read-only: it leaves the stored node results, the
\* index of the mission category - every access_count and last_accessed
\* included - and the runner's hit and miss counters as they were.
C39_AnalyzeReadOnly ==
    [][(Idle /\ pc' = pc /\ last'.op = "analyze")
          => /\ files'[MissionCategory] = files[MissionCategory]
             /\ metadata'[MissionCategory] = metadata[MissionCategory]
             /\ diskIndex'[MissionCategory] = diskIndex[MissionCategory]
             /\ stats' = stats]_vars
====
